---------------------------- MODULE Spec2Model ----------------------------
(***************************************************************************)
(* A model of the FOA ingestion and semantic tagging pipeline (main.py).   *)
(*                                                                         *)
(* Text is a sequence of one-character strings.  The regular expressions   *)
(* of the source are transcribed as syntax trees and run by a backtracking *)
(* matcher with Python's priorities (greedy quantifiers, leftmost match).  *)
(* A parsed page (BeautifulSoup's tree) is a sequence of elements          *)
(* [tag, text] in document order.                                          *)
(***************************************************************************)
EXTENDS Integers, Sequences, FiniteSets, TLC

(***************************************************************************)
(* Characters and strings                                                  *)
(***************************************************************************)
UpperChars == <<"A","B","C","D","E","F","G","H","I","J","K","L","M","N","O","P","Q","R","S","T","U","V","W","X","Y","Z">>
LowerChars == <<"a","b","c","d","e","f","g","h","i","j","k","l","m","n","o","p","q","r","s","t","u","v","w","x","y","z">>
DigitChars == <<"0","1","2","3","4","5","6","7","8","9">>

\* str.lower() on one character.
LowerMap == [i \in 1..Len(UpperChars) |-> LowerChars[i]]
LowerChar(c) ==
    IF \E i \in 1..Len(UpperChars) : UpperChars[i] = c
    THEN LowerMap[CHOOSE i \in 1..Len(UpperChars) : UpperChars[i] = c]
    ELSE c

\* str.lower()
Lower(s) == [i \in 1..Len(s) |-> LowerChar(s[i])]

IsDigit(c) == \E i \in 1..Len(DigitChars) : DigitChars[i] = c
DigitVal(c) == (CHOOSE i \in 1..Len(DigitChars) : DigitChars[i] = c) - 1
IsSpace(c) == c \in {" ", "\n", "\t", "\r"}

\* `sub in s` for Python strings.
RECURSIVE PrefixAt(_, _, _, _)
PrefixAt(sub, s, i, j) ==
    IF j > Len(sub) THEN TRUE
    ELSE IF i + j - 1 > Len(s) THEN FALSE
    ELSE IF s[i + j - 1] # sub[j] THEN FALSE
    ELSE PrefixAt(sub, s, i, j + 1)

Contains(s, sub) == \E i \in 1..(Len(s) - Len(sub) + 1) : PrefixAt(sub, s, i, 1)

\* str.strip()
RECURSIVE LStrip(_)
LStrip(s) == IF Len(s) > 0 /\ IsSpace(s[1]) THEN LStrip(Tail(s)) ELSE s
RECURSIVE RStrip(_)
RStrip(s) ==
    IF Len(s) > 0 /\ IsSpace(s[Len(s)]) THEN RStrip(SubSeq(s, 1, Len(s) - 1)) ELSE s
Strip(s) == LStrip(RStrip(s))

\* str(n) for n >= 0
RECURSIVE IntToStr(_)
IntToStr(n) ==
    IF n < 10 THEN <<DigitChars[n + 1]>>
    ELSE Append(IntToStr(n \div 10), DigitChars[(n % 10) + 1])

\* int(s) for a string of digits
RECURSIVE StrToInt(_)
StrToInt(s) ==
    IF Len(s) = 0 THEN 0
    ELSE 10 * StrToInt(SubSeq(s, 1, Len(s) - 1)) + DigitVal(s[Len(s)])

\* Zero-padded decimal, as in datetime.isoformat().
RECURSIVE ZeroPad(_, _)
ZeroPad(s, w) == IF Len(s) >= w THEN s ELSE ZeroPad(<<"0">> \o s, w)

(***************************************************************************)
(* Regular expressions (the re module's backtracking search)               *)
(***************************************************************************)
\* Membership of a character in a character class of the source's patterns.
InClass(cls, c) ==
    CASE cls = "d"        -> IsDigit(c)                 \* \d
      [] cls = "s"        -> IsSpace(c)                 \* \s
      [] cls = "colon_s"  -> c = ":" \/ IsSpace(c)      \* [:\s]
      [] cls = "notnl"    -> c # "\n"                   \* [^\n]
      [] cls = "dcomma"   -> IsDigit(c) \/ c = ","      \* [\d,]
      [] cls = "sep"      -> c \in {"/", "-"}           \* [/-]
      [] cls = "dollar"   -> c = "$"                    \* \$
      [] OTHER            -> FALSE

\* Pattern nodes.
Lit(s) == [t |-> "lit", s |-> Lower(s)]
Rep(cls, lo, hi) == [t |-> "cls", c |-> cls, min |-> lo, max |-> hi, inf |-> FALSE]
Plus(cls) == [t |-> "cls", c |-> cls, min |-> 1, max |-> 0, inf |-> TRUE]
Star(cls) == [t |-> "cls", c |-> cls, min |-> 0, max |-> 0, inf |-> TRUE]
One(cls) == Rep(cls, 1, 1)
OptCls(cls) == Rep(cls, 0, 1)
OptGroup(alts) == [t |-> "opt", alts |-> alts]
AltGroup(alts) == [t |-> "alt", alts |-> alts]
StarGroup(body) == [t |-> "star", body |-> body]
GroupStart == [t |-> "gs"]
GroupEnd == [t |-> "ge"]

NoMatch == [ok |-> FALSE, start |-> 0, end |-> 0, gs |-> 0, ge |-> 0]

\* A literal of the pattern at position i of the text; letters compare
\* case-insensitively (re.I; the one pattern searched without it has none).
RECURSIVE LitAt(_, _, _, _)
LitAt(lit, text, i, j) ==
    IF j > Len(lit) THEN TRUE
    ELSE IF i + j - 1 > Len(text) THEN FALSE
    ELSE IF LowerChar(text[i + j - 1]) # lit[j] THEN FALSE
    ELSE LitAt(lit, text, i, j + 1)

SetMin(S) == CHOOSE m \in S : \A n \in S : m <= n
SetMax(S) == CHOOSE m \in S : \A n \in S : m >= n

\* The length of the run of class characters from position i, at most max
\* of them when the quantifier is bounded.
RunLen(node, text, i) ==
    LET stop == {j \in i..Len(text) : ~InClass(node.c, text[j])}
        run == IF stop = {} THEN Len(text) - i + 1 ELSE SetMin(stop) - i
    IN  IF ~node.inf /\ run > node.max THEN node.max ELSE run

\* Match(re, text, i, gs, ge): the first match, in backtracking order, of
\* the node sequence re from position i; gs and ge are group 1's bounds.
RECURSIVE Match(_, _, _, _, _)
RECURSIVE TryAlts(_, _, _, _, _, _, _)

\* A greedy quantifier: the longest count in min..k whose rest matches.
TryCount(rest, text, i, k, min, gs, ge) ==
    LET good == {c \in min..k : Match(rest, text, i + c, gs, ge).ok}
    IN  IF good = {} THEN NoMatch ELSE Match(rest, text, i + SetMax(good), gs, ge)

TryAlts(alts, j, rest, text, i, gs, ge) ==
    IF j > Len(alts) THEN NoMatch
    ELSE LET m == Match(alts[j] \o rest, text, i, gs, ge)
         IN  IF m.ok THEN m ELSE TryAlts(alts, j + 1, rest, text, i, gs, ge)

Match(re, text, i, gs, ge) ==
    IF Len(re) = 0 THEN [ok |-> TRUE, start |-> 0, end |-> i, gs |-> gs, ge |-> ge]
    ELSE LET n == Head(re)
             rest == Tail(re)
         IN  CASE n.t = "lit" ->
                    IF LitAt(n.s, text, i, 1)
                    THEN Match(rest, text, i + Len(n.s), gs, ge)
                    ELSE NoMatch
               [] n.t = "cls" ->
                    TryCount(rest, text, i, RunLen(n, text, i), n.min, gs, ge)
               [] n.t = "opt" ->
                    LET m == TryAlts(n.alts, 1, rest, text, i, gs, ge)
                    IN  IF m.ok THEN m ELSE Match(rest, text, i, gs, ge)
               [] n.t = "alt" -> TryAlts(n.alts, 1, rest, text, i, gs, ge)
               [] n.t = "star" ->
                    LET m == Match(n.body \o <<n>> \o rest, text, i, gs, ge)
                    IN  IF m.ok THEN m ELSE Match(rest, text, i, gs, ge)
               [] n.t = "gs" -> Match(rest, text, i, i, ge)
               [] n.t = "ge" -> Match(rest, text, i, gs, i)

\* re.search: the match at the leftmost position that has one.  Positions
\* are 1-based; a match covers start..end-1 and group 1 covers gs..ge-1.
Search(re, text) ==
    LET starts == {i \in 1..(Len(text) + 1) : Match(re, text, i, 0, 0).ok}
    IN  IF starts = {} THEN NoMatch
        ELSE LET i == SetMin(starts)
             IN  [Match(re, text, i, 0, 0) EXCEPT !.start = i]

\* match.group(1), match.group(0)
Group1(m, text) == SubSeq(text, m.gs, m.ge - 1)
Group0(m, text) == SubSeq(text, m.start, m.end - 1)

(***************************************************************************)
(* The parsed page (BeautifulSoup)                                         *)
(***************************************************************************)
\* soup.find(tag): the index of the first element with that tag, 0 if none.
RECURSIVE FindFrom(_, _, _)
FindFrom(page, tag, i) ==
    IF i > Len(page) THEN 0
    ELSE IF page[i].tag = tag THEN i
    ELSE FindFrom(page, tag, i + 1)
Find(page, tag) == FindFrom(page, tag, 1)

\* soup.get_text(): every element's text, in document order.
RECURSIVE GetText(_)
GetText(page) == IF Len(page) = 0 THEN <<>> ELSE Head(page).text \o GetText(Tail(page))

NA == <<"N","/","A">>

\* title_elem = soup.find('h1') or soup.find('title'); a Tag is always
\* truthy, so an h1 without text is still the one chosen.
\* data['title'] = title_elem.get_text(strip=True) if title_elem else 'N/A'
ExtractTitle(page) ==
    LET h == Find(page, "h1")
        t == Find(page, "title")
        elem == IF h # 0 THEN h ELSE t
    IN  IF elem # 0 THEN Strip(page[elem].text) ELSE NA

(***************************************************************************)
(* Agency                                                                  *)
(***************************************************************************)
\* r'Agency:\s*([^\n]+)', r'Funding Agency:\s*([^\n]+)', r'Department:\s*([^\n]+)'
AgencyRe(label) == <<Lit(label), Star("s"), GroupStart, Plus("notnl"), GroupEnd>>
\* The patterns in another order.
agency_patterns_DepartmentFirst ==
    << AgencyRe(<<"D","e","p","a","r","t","m","e","n","t",":">>), AgencyRe(<<"A","g","e","n","c","y",":">>), AgencyRe(<<"F","u","n","d","i","n","g"," ","A","g","e","n","c","y",":">>) >>
agency_patterns ==
    << AgencyRe(<<"A","g","e","n","c","y",":">>), AgencyRe(<<"F","u","n","d","i","n","g"," ","A","g","e","n","c","y",":">>), AgencyRe(<<"D","e","p","a","r","t","m","e","n","t",":">>) >>

\* for pattern in agency_patterns: ... agency = match.group(1).strip(); break
RECURSIVE AgencyLoop(_, _)
AgencyLoop(full_text, i) ==
    IF i > Len(agency_patterns) THEN NA
    ELSE LET m == Search(agency_patterns[i], full_text)
         IN  IF m.ok THEN Strip(Group1(m, full_text)) ELSE AgencyLoop(full_text, i + 1)

\* urlparse(url).netloc.lower()
RECURSIVE IndexOf(_, _, _)
IndexOf(s, set, i) ==
    IF i > Len(s) THEN 0 ELSE IF s[i] \in set THEN i ELSE IndexOf(s, set, i + 1)
Domain(url) ==
    LET c == IndexOf(url, {":"}, 1)
    IN  IF c = 0 \/ ~PrefixAt(<<"/","/">>, url, c + 1, 1) THEN <<>>
        ELSE LET e == IndexOf(url, {"/", "?", "#"}, c + 3)
             IN  Lower(SubSeq(url, c + 3, IF e = 0 THEN Len(url) ELSE e - 1))

infer_agency_from_url(domain) ==
    IF Contains(domain, <<"g","r","a","n","t","s",".","g","o","v">>) THEN <<"G","r","a","n","t","s",".","g","o","v">>
    ELSE IF Contains(domain, <<"n","s","f",".","g","o","v">>) THEN <<"N","a","t","i","o","n","a","l"," ","S","c","i","e","n","c","e"," ","F","o","u","n","d","a","t","i","o","n"," ","(","N","S","F",")">>
    ELSE IF Contains(domain, <<"n","i","h",".","g","o","v">>) THEN <<"N","a","t","i","o","n","a","l"," ","I","n","s","t","i","t","u","t","e","s"," ","o","f"," ","H","e","a","l","t","h"," ","(","N","I","H",")">>
    ELSE <<"U","n","k","n","o","w","n"," ","A","g","e","n","c","y">>

\* 'agency': agency if agency != 'N/A' else self._infer_agency_from_url()
GrantsAgency(full_text, domain) ==
    LET agency == AgencyLoop(full_text, 1)
    IN  IF agency # NA THEN agency ELSE infer_agency_from_url(domain)

(***************************************************************************)
(* Dates                                                                   *)
(***************************************************************************)
DateTail == <<"[",":","\\","s","]","+","(","\\","d","{","1",",","2","}","[","/","-","]","\\","d","{","1",",","2","}","[","/","-","]","\\","d","{","2",",","4","}",")">>
DateRe(label) ==
    <<Lit(label), Plus("colon_s"), GroupStart, Rep("d", 1, 2), One("sep"),
      Rep("d", 1, 2), One("sep"), Rep("d", 2, 4), GroupEnd>>
\* A date pattern: its source text (the role is read from it) and its tree.
DatePattern(label) == [src |-> label \o DateTail, re |-> DateRe(label)]

grants_date_patterns ==
    << DatePattern(<<"O","p","e","n"," ","D","a","t","e">>), DatePattern(<<"P","o","s","t"," ","D","a","t","e">>),
       DatePattern(<<"C","l","o","s","e"," ","D","a","t","e">>), DatePattern(<<"D","u","e"," ","D","a","t","e">>) >>
\* The last pattern with the generic profile's label.
nsf_date_patterns_DueDate ==
    << DatePattern(<<"F","u","l","l"," ","P","r","o","p","o","s","a","l"," ","D","e","a","d","l","i","n","e">>), DatePattern(<<"P","r","o","p","o","s","a","l"," ","D","e","a","d","l","i","n","e">>),
       DatePattern(<<"D","e","a","d","l","i","n","e">>), DatePattern(<<"D","u","e"," ","D","a","t","e">>) >>
nsf_date_patterns ==
    << DatePattern(<<"F","u","l","l"," ","P","r","o","p","o","s","a","l"," ","D","e","a","d","l","i","n","e">>), DatePattern(<<"P","r","o","p","o","s","a","l"," ","D","e","a","d","l","i","n","e">>),
       DatePattern(<<"D","e","a","d","l","i","n","e">>), DatePattern(<<"D","u","e">>) >>

IsLeap(y) == (y % 4 = 0 /\ y % 100 # 0) \/ y % 400 = 0
DaysInMonth(y, m) ==
    IF m \in {4, 6, 9, 11} THEN 30
    ELSE IF m = 2 THEN (IF IsLeap(y) THEN 29 ELSE 28)
    ELSE 31

\* dateutil's convertyear: a year without century is taken within 50 years
\* of the clock's year.
ConvertYear(year, century_specified, clock) ==
    IF year < 100 /\ ~century_specified
    THEN LET y == year + (clock \div 100) * 100
         IN  IF y >= clock + 50 THEN y - 100
             ELSE IF y < clock - 50 THEN y + 100
             ELSE y
    ELSE year

\* date_parser.parse on a matched d{1,2} sep d{1,2} sep d{2,4} string:
\* three numbers, the last one labelled a year when it has more than two
\* digits; dateutil's resolve_ymd with dayfirst = yearfirst = False, then
\* the datetime constructor's range checks (ValueError: ok = FALSE).
ParseDate(s, clock) ==
    LET s1 == IndexOf(s, {"/", "-"}, 1)
        s2 == IndexOf(s, {"/", "-"}, s1 + 1)
        a == StrToInt(SubSeq(s, 1, s1 - 1))
        b == StrToInt(SubSeq(s, s1 + 1, s2 - 1))
        c == StrToInt(SubSeq(s, s2 + 1, Len(s)))
        century == Len(s) - s2 > 2
        ymd == IF a > 31 THEN [y |-> a, m |-> b, d |-> c]
               ELSE IF a > 12 THEN [y |-> c, m |-> b, d |-> a]
               ELSE [y |-> c, m |-> a, d |-> b]
        year == ConvertYear(ymd.y, century, clock)
        valid == /\ year >= 1 /\ year <= 9999
                 /\ ymd.m >= 1 /\ ymd.m <= 12
                 /\ ymd.d >= 1 /\ ymd.d <= DaysInMonth(year, ymd.m)
    IN  [ok |-> valid, y |-> year, m |-> ymd.m, d |-> ymd.d]

\* datetime.isoformat() of a date at midnight
IsoFormat(dt) ==
    ZeroPad(IntToStr(dt.y), 4) \o <<"-">> \o ZeroPad(IntToStr(dt.m), 2) \o <<"-">>
        \o ZeroPad(IntToStr(dt.d), 2) \o <<"T","0","0",":","0","0",":","0","0">>

\* None, for a date not set yet
None == <<"None">>

\* The pass without the `is None` tests: a later date replaces an earlier.
GrantsDateStep_Overwrite(pattern, date_text, dates, clock) ==
    LET m == Search(pattern.re, date_text)
        src == Lower(pattern.src)
    IN  IF ~m.ok THEN dates
        ELSE LET parsed_date == ParseDate(Group1(m, date_text), clock)
             IN  IF ~parsed_date.ok THEN dates
                 ELSE IF Contains(src, <<"o","p","e","n">>) \/ Contains(src, <<"p","o","s","t">>)
                 THEN [dates EXCEPT !.open = IsoFormat(parsed_date)]
                 ELSE IF Contains(src, <<"c","l","o","s","e">>) \/ Contains(src, <<"d","u","e">>)
                 THEN [dates EXCEPT !.close = IsoFormat(parsed_date)]
                 ELSE dates

\* One pass of the generic profile's loop over date_patterns: dates is
\* [open, close] before the pattern, the result is the pair after it.
GrantsDateStep(pattern, date_text, dates, clock) ==
    LET m == Search(pattern.re, date_text)
        src == Lower(pattern.src)
    IN  IF ~m.ok THEN dates
        ELSE LET parsed_date == ParseDate(Group1(m, date_text), clock)
             IN  IF ~parsed_date.ok THEN dates        \* except (ValueError, TypeError): pass
                 ELSE IF Contains(src, <<"o","p","e","n">>) \/ Contains(src, <<"p","o","s","t">>)
                 THEN (IF dates.open = None
                       THEN [dates EXCEPT !.open = IsoFormat(parsed_date)]
                       ELSE dates)
                 ELSE IF Contains(src, <<"c","l","o","s","e">>) \/ Contains(src, <<"d","u","e">>)
                 THEN (IF dates.close = None
                       THEN [dates EXCEPT !.close = IsoFormat(parsed_date)]
                       ELSE dates)
                 ELSE dates

\* One pass of the NSF profile's loop: every pattern is a close date.
NsfDateStep(pattern, date_text, dates, clock) ==
    LET m == Search(pattern.re, date_text)
    IN  IF ~m.ok THEN dates
        ELSE LET parsed_date == ParseDate(Group1(m, date_text), clock)
             IN  IF ~parsed_date.ok THEN dates
                 ELSE IF dates.close = None
                 THEN [dates EXCEPT !.close = IsoFormat(parsed_date)]
                 ELSE dates

RECURSIVE GrantsDateLoop(_, _, _, _)
GrantsDateLoop(date_text, i, dates, clock) ==
    IF i > Len(grants_date_patterns) THEN dates
    ELSE GrantsDateLoop(date_text, i + 1,
             GrantsDateStep(grants_date_patterns[i], date_text, dates, clock), clock)

RECURSIVE NsfDateLoop(_, _, _, _)
NsfDateLoop(date_text, i, dates, clock) ==
    IF i > Len(nsf_date_patterns) THEN dates
    ELSE NsfDateLoop(date_text, i + 1,
             NsfDateStep(nsf_date_patterns[i], date_text, dates, clock), clock)

NoDates == [open |-> None, close |-> None]

\* x or 'N/A'
OrNA(x) == IF x = None \/ x = <<>> THEN NA ELSE x

(***************************************************************************)
(* Sections, award range, identifier                                       *)
(***************************************************************************)
SectionLimit == 500

\* rf'{escaped_keyword}[:\s]*([^\n]+(?:\n[^\n]+)*)'
SectionRe(keyword) ==
    <<Lit(keyword), Star("colon_s"), GroupStart, Plus("notnl"),
      StarGroup(<<Lit(<<"\n">>), Plus("notnl")>>), GroupEnd>>

Ellipsis == <<".",".",".">>

\* _extract_section: the first keyword whose pattern matches decides; the
\* result is None when no keyword matches.
RECURSIVE extract_section(_, _, _)
extract_section(text, keywords, i) ==
    IF i > Len(keywords) THEN None
    ELSE LET m == Search(SectionRe(keywords[i]), text)
         IN  IF m.ok
             THEN LET section == Strip(Group1(m, text))
                  IN  IF Len(section) > SectionLimit
                      THEN SubSeq(section, 1, SectionLimit) \o Ellipsis
                      ELSE section
             ELSE extract_section(text, keywords, i + 1)

grants_eligibility_keywords == << <<"e","l","i","g","i","b","i","l","i","t","y">>, <<"e","l","i","g","i","b","l","e">>, <<"q","u","a","l","i","f","i","c","a","t","i","o","n">> >>
grants_desc_keywords == << <<"d","e","s","c","r","i","p","t","i","o","n">>, <<"s","u","m","m","a","r","y">>, <<"o","v","e","r","v","i","e","w">>, <<"p","u","r","p","o","s","e">> >>
nsf_eligibility_keywords == << <<"e","l","i","g","i","b","i","l","i","t","y">>, <<"e","l","i","g","i","b","l","e">>, <<"w","h","o"," ","m","a","y">> >>
nsf_desc_keywords == << <<"d","e","s","c","r","i","p","t","i","o","n">>, <<"s","u","m","m","a","r","y">>, <<"o","v","e","r","v","i","e","w">>, <<"s","y","n","o","p","s","i","s">> >>

Amount == <<One("dollar"), Plus("dcomma"), OptGroup(<< <<Lit(<<".">>), Plus("d")>> >>)>>
\* r'\$[\d,]+(?:\.\d+)?\s*(?:to|-)?\s*\$?[\d,]+(?:\.\d+)?'
\* r'up to \$[\d,]+(?:\.\d+)?'
\* r'\$[\d,]+(?:\.\d+)?\s*(?:million|M|thousand|K)'
award_patterns ==
    << Amount \o <<Star("s"), OptGroup(<< <<Lit(<<"t","o">>)>>, <<Lit(<<"-">>)>> >>), Star("s"),
                   OptCls("dollar"), Plus("dcomma"),
                   OptGroup(<< <<Lit(<<".">>), Plus("d")>> >>)>>,
       <<Lit(<<"u","p"," ","t","o"," ">>)>> \o Amount,
       Amount \o <<Star("s"), AltGroup(<< <<Lit(<<"m","i","l","l","i","o","n">>)>>, <<Lit(<<"M">>)>>,
                                         <<Lit(<<"t","h","o","u","s","a","n","d">>)>>, <<Lit(<<"K">>)>> >>)>> >>

RECURSIVE AwardLoop(_, _)
AwardLoop(full_text, i) ==
    IF i > Len(award_patterns) THEN None
    ELSE LET m == Search(award_patterns[i], full_text)
         IN  IF m.ok THEN Group0(m, full_text) ELSE AwardLoop(full_text, i + 1)

\* hash(title): a str hash is keyed by the process's random hash seed
\* (PYTHONHASHSEED); within one process it is a function of the string.
\* The model's hash is a keyed polynomial over HashBits bits, signed.
HashBits == 20
CharCodes == LowerChars \o UpperChars \o DigitChars \o <<" ","/",":",".","-",",","$","(",")","'">>
CharCode(c) ==
    IF \E i \in 1..Len(CharCodes) : CharCodes[i] = c
    THEN CHOOSE i \in 1..Len(CharCodes) : CharCodes[i] = c
    ELSE 0
RECURSIVE HashAcc(_, _, _)
HashAcc(s, i, h) ==
    IF i > Len(s) THEN h
    ELSE HashAcc(s, i + 1, (h * 31 + CharCode(s[i])) % (2 ^ HashBits))
PyHash(s, seed) ==
    LET u == HashAcc(s, 1, (seed * 7919 + 17) % (2 ^ HashBits))
    IN  IF u >= 2 ^ (HashBits - 1) THEN u - 2 ^ HashBits ELSE u
Abs(n) == IF n < 0 THEN -n ELSE n

FoaPrefix == <<"F","O","A","-">>
\* r'/(\d+)/'
url_id_re == <<Lit(<<"/">>), GroupStart, Plus("d"), GroupEnd, Lit(<<"/">>)>>
HashModulus == 100000

generate_foa_id(title, url, seed) ==
    LET url_id_match == Search(url_id_re, url)
    IN  IF url_id_match.ok
        THEN FoaPrefix \o Group1(url_id_match, url)
        ELSE FoaPrefix \o IntToStr(Abs(PyHash(title, seed)) % HashModulus)

(***************************************************************************)
(* The two extraction profiles                                             *)
(***************************************************************************)
extract_grants_gov(page, url, seed, clock) ==
    LET title == ExtractTitle(page)
        full_text == GetText(page)
        dates == GrantsDateLoop(full_text, 1, NoDates, clock)
    IN  [foa_id |-> generate_foa_id(title, url, seed),
         title |-> title,
         agency |-> GrantsAgency(full_text, Domain(url)),
         open_date |-> OrNA(dates.open),
         close_date |-> OrNA(dates.close),
         eligibility_text |-> OrNA(extract_section(full_text, grants_eligibility_keywords, 1)),
         program_description |-> OrNA(extract_section(full_text, grants_desc_keywords, 1)),
         award_range |-> OrNA(AwardLoop(full_text, 1)),
         source_url |-> url]

NsfAgency == <<"N","a","t","i","o","n","a","l"," ","S","c","i","e","n","c","e"," ","F","o","u","n","d","a","t","i","o","n"," ","(","N","S","F",")">>

extract_nsf(page, url, seed, clock) ==
    LET title == ExtractTitle(page)
        full_text == GetText(page)
        dates == NsfDateLoop(full_text, 1, NoDates, clock)
    IN  [foa_id |-> generate_foa_id(title, url, seed),
         title |-> title,
         agency |-> NsfAgency,
         open_date |-> OrNA(dates.open),
         close_date |-> OrNA(dates.close),
         eligibility_text |-> OrNA(extract_section(full_text, nsf_eligibility_keywords, 1)),
         program_description |-> OrNA(extract_section(full_text, nsf_desc_keywords, 1)),
         award_range |-> OrNA(AwardLoop(full_text, 1)),
         source_url |-> url]

\* ingest(): the profile is chosen by the host.
IsNsf(url) == Contains(Domain(url), <<"n","s","f",".","g","o","v">>)
Extract(page, url, seed, clock) ==
    IF IsNsf(url) THEN extract_nsf(page, url, seed, clock)
    ELSE extract_grants_gov(page, url, seed, clock)

(***************************************************************************)
(* The semantic tagger                                                     *)
(***************************************************************************)
RESEARCH_DOMAINS ==
    << [label |-> "health", keywords |-> << <<"h","e","a","l","t","h">>, <<"m","e","d","i","c","a","l">>, <<"c","l","i","n","i","c","a","l">>, <<"b","i","o","m","e","d","i","c","a","l">>, <<"d","i","s","e","a","s","e">>, <<"t","r","e","a","t","m","e","n","t">>, <<"t","h","e","r","a","p","y">> >>],
       [label |-> "engineering", keywords |-> << <<"e","n","g","i","n","e","e","r","i","n","g">>, <<"t","e","c","h","n","o","l","o","g","y">>, <<"i","n","n","o","v","a","t","i","o","n">>, <<"d","e","s","i","g","n">>, <<"m","a","n","u","f","a","c","t","u","r","i","n","g">> >>],
       [label |-> "science", keywords |-> << <<"s","c","i","e","n","c","e">>, <<"r","e","s","e","a","r","c","h">>, <<"d","i","s","c","o","v","e","r","y">>, <<"e","x","p","e","r","i","m","e","n","t">>, <<"l","a","b","o","r","a","t","o","r","y">> >>],
       [label |-> "education", keywords |-> << <<"e","d","u","c","a","t","i","o","n">>, <<"l","e","a","r","n","i","n","g">>, <<"t","e","a","c","h","i","n","g">>, <<"s","t","u","d","e","n","t">>, <<"c","u","r","r","i","c","u","l","u","m">> >>],
       [label |-> "environment", keywords |-> << <<"e","n","v","i","r","o","n","m","e","n","t">>, <<"c","l","i","m","a","t","e">>, <<"s","u","s","t","a","i","n","a","b","i","l","i","t","y">>, <<"e","n","e","r","g","y">>, <<"r","e","n","e","w","a","b","l","e">> >>],
       [label |-> "social", keywords |-> << <<"s","o","c","i","a","l">>, <<"c","o","m","m","u","n","i","t","y">>, <<"s","o","c","i","e","t","y">>, <<"b","e","h","a","v","i","o","r">>, <<"p","o","l","i","c","y">>, <<"p","u","b","l","i","c">> >>] >>

METHODS ==
    << [label |-> "experimental", keywords |-> << <<"e","x","p","e","r","i","m","e","n","t">>, <<"t","r","i","a","l">>, <<"t","e","s","t","i","n","g">>, <<"l","a","b","o","r","a","t","o","r","y">>, <<"e","m","p","i","r","i","c","a","l">> >>],
       [label |-> "computational", keywords |-> << <<"c","o","m","p","u","t","a","t","i","o","n","a","l">>, <<"m","o","d","e","l","i","n","g">>, <<"s","i","m","u","l","a","t","i","o","n">>, <<"a","l","g","o","r","i","t","h","m">>, <<"d","a","t","a"," ","a","n","a","l","y","s","i","s">> >>],
       [label |-> "theoretical", keywords |-> << <<"t","h","e","o","r","e","t","i","c","a","l">>, <<"t","h","e","o","r","y">>, <<"m","a","t","h","e","m","a","t","i","c","a","l">>, <<"c","o","n","c","e","p","t","u","a","l">> >>],
       [label |-> "field_study", keywords |-> << <<"f","i","e","l","d"," ","s","t","u","d","y">>, <<"f","i","e","l","d","w","o","r","k">>, <<"s","u","r","v","e","y">>, <<"o","b","s","e","r","v","a","t","i","o","n">>, <<"e","t","h","n","o","g","r","a","p","h","i","c">> >>] >>

POPULATIONS ==
    << [label |-> "students", keywords |-> << <<"s","t","u","d","e","n","t">>, <<"u","n","d","e","r","g","r","a","d","u","a","t","e">>, <<"g","r","a","d","u","a","t","e">>, <<"p","o","s","t","d","o","c","t","o","r","a","l">> >>],
       [label |-> "faculty", keywords |-> << <<"f","a","c","u","l","t","y">>, <<"p","r","o","f","e","s","s","o","r">>, <<"r","e","s","e","a","r","c","h","e","r">>, <<"i","n","v","e","s","t","i","g","a","t","o","r">> >>],
       [label |-> "institutions", keywords |-> << <<"i","n","s","t","i","t","u","t","i","o","n">>, <<"u","n","i","v","e","r","s","i","t","y">>, <<"c","o","l","l","e","g","e">>, <<"o","r","g","a","n","i","z","a","t","i","o","n">> >>],
       [label |-> "communities", keywords |-> << <<"c","o","m","m","u","n","i","t","y">>, <<"p","u","b","l","i","c">>, <<"p","o","p","u","l","a","t","i","o","n">>, <<"s","o","c","i","e","t","y">> >>] >>

\* foa_data.get(key, '')
Get(foa_data, key) == IF key \in DOMAIN foa_data THEN foa_data[key] ELSE <<>>

\* The text without the eligibility.
TagText_NoEligibility(foa_data) ==
    Lower(Get(foa_data, "title") \o <<" ">> \o Get(foa_data, "program_description"))

\* text = f"{title} {program_description} {eligibility_text}".lower()
TagText(foa_data) ==
    Lower(Get(foa_data, "title") \o <<" ">> \o Get(foa_data, "program_description")
          \o <<" ">> \o Get(foa_data, "eligibility_text"))

\* any(keyword in text for keyword in keywords)
AnyKeyword(keywords, text) == \E j \in 1..Len(keywords) : Contains(text, keywords[j])

\* for label, keywords in table.items(): if any(...): tags.append(label)
RECURSIVE TagCategory(_, _, _)
TagCategory(table, text, i) ==
    IF i > Len(table) THEN <<>>
    ELSE (IF AnyKeyword(table[i].keywords, text) THEN <<table[i].label>> ELSE <<>>)
         \o TagCategory(table, text, i + 1)

\* The two agency tests in the other order.
SponsorTheme_NihFirst(foa_data) ==
    LET agency == Lower(Get(foa_data, "agency"))
    IN  IF Contains(agency, <<"n","i","h">>) THEN <<"health_research">>
        ELSE IF Contains(agency, <<"n","s","f">>) THEN <<"basic_research">>
        ELSE <<"general">>

SponsorTheme(foa_data) ==
    LET agency == Lower(Get(foa_data, "agency"))
    IN  IF Contains(agency, <<"n","s","f">>) THEN <<"basic_research">>
        ELSE IF Contains(agency, <<"n","i","h">>) THEN <<"health_research">>
        ELSE <<"general">>

SemanticTags(foa_data) ==
    LET text == TagText(foa_data)
    IN  [research_domains |-> TagCategory(RESEARCH_DOMAINS, text, 1),
         methods |-> TagCategory(METHODS, text, 1),
         populations |-> TagCategory(POPULATIONS, text, 1),
         sponsor_themes |-> SponsorTheme(foa_data)]

\* The labels appended to the lists the record holds already.
Tag_Accumulate(foa_data) ==
    LET new == SemanticTags(foa_data)
        old == IF "semantic_tags" \in DOMAIN foa_data THEN foa_data.semantic_tags
               ELSE [c \in DOMAIN new |-> <<>>]
    IN  [k \in DOMAIN foa_data \cup {"semantic_tags"} |->
            IF k = "semantic_tags" THEN [c \in DOMAIN new |-> old[c] \o new[c]]
            ELSE foa_data[k]]

\* tag(): foa_data['semantic_tags'] = tags; return foa_data
Tag(foa_data) ==
    [k \in DOMAIN foa_data \cup {"semantic_tags"} |->
        IF k = "semantic_tags" THEN SemanticTags(foa_data) ELSE foa_data[k]]

(***************************************************************************)
(* Inputs                                                                  *)
(***************************************************************************)
UrlGrantsDetail == <<"h","t","t","p","s",":","/","/","w","w","w",".","g","r","a","n","t","s",".","g","o","v","/","s","e","a","r","c","h","-","r","e","s","u","l","t","s","-","d","e","t","a","i","l","/","1","2","3","4","5","6">>
UrlGrantsView == <<"h","t","t","p","s",":","/","/","w","w","w",".","g","r","a","n","t","s",".","g","o","v","/","v","i","e","w","/","9","8","7","/","d","e","t","a","i","l","s">>
UrlNsf == <<"h","t","t","p","s",":","/","/","n","s","f",".","g","o","v","/","f","u","n","d","i","n","g","/","o","p","p","o","r","t","u","n","i","t","i","e","s">>
UrlNih == <<"h","t","t","p","s",":","/","/","g","r","a","n","t","s",".","n","i","h",".","g","o","v","/","g","r","a","n","t","s","/","g","u","i","d","e">>
UrlOther == <<"h","t","t","p","s",":","/","/","e","x","a","m","p","l","e",".","o","r","g","/","f","o","a">>
Urls == {UrlGrantsDetail, UrlGrantsView, UrlNsf, UrlNih, UrlOther}

Elem(tag, text) == [tag |-> tag, text |-> text]
ScenarioTitle == <<"C","l","i","m","a","t","e"," ","R","e","s","e","a","r","c","h"," ","G","r","a","n","t">>
ScenarioBody == <<"A","g","e","n","c","y",":"," ","N","S","F"," ","D","e","p","a","r","t","m","e","n","t"," ","o","f"," ","E","n","v","i","r","o","n","m","e","n","t","."," ","D","u","e"," ","D","a","t","e",":"," ","0","4","/","0","1","/","2","0","2","5","."," ","E","l","i","g","i","b","i","l","i","t","y",":"," ","o","p","e","n"," ","t","o"," ","g","r","a","d","u","a","t","e"," ","s","t","u","d","e","n","t","s","."," ","D","e","s","c","r","i","p","t","i","o","n",":"," ","c","o","m","p","u","t","a","t","i","o","n","a","l"," ","c","l","i","m","a","t","e"," ","m","o","d","e","l","i","n","g"," ","r","e","s","e","a","r","c","h",".">>
ScenarioPage == <<Elem("h1", ScenarioTitle), Elem("p", ScenarioBody)>>

\* Lines of a page body, each ending its line.
DateLines ==
    { <<"O","p","e","n"," ","D","a","t","e",":"," ","0","1","/","1","5","/","2","0","2","5","\n">>, <<"P","o","s","t"," ","D","a","t","e",":"," ","0","2","/","0","1","/","2","0","2","5","\n">>,
      <<"C","l","o","s","e"," ","D","a","t","e",":"," ","0","3","/","0","1","/","2","0","2","5","\n">>, <<"C","l","o","s","e"," ","D","a","t","e",":"," ","1","3","/","4","5","/","2","0","2","5","\n">>,
      <<"D","u","e"," ","D","a","t","e",":"," ","0","3","/","1","5","/","2","0","2","5","\n">>, <<"F","u","l","l"," ","P","r","o","p","o","s","a","l"," ","D","e","a","d","l","i","n","e",":"," ","0","5","/","0","1","/","2","0","2","5","\n">>,
      <<"D","e","a","d","l","i","n","e",":"," ","3","1","/","1","2","/","2","5","\n">>, <<"D","u","e",":"," ","0","6","/","0","1","/","2","0","2","5","\n">> }
AgencyLines ==
    { <<"A","g","e","n","c","y",":"," ","N","I","H"," ","O","f","f","i","c","e","\n">>, <<"F","u","n","d","i","n","g"," ","A","g","e","n","c","y",":"," ","E","n","e","r","g","y","\n">>,
      <<"D","e","p","a","r","t","m","e","n","t",":"," ","C","o","m","m","e","r","c","e"," ","\n">>, <<"a","g","e","n","c","y",":"," ","N","/","A","\n">> }
OtherLines ==
    { <<"E","l","i","g","i","b","i","l","i","t","y",":"," ","o","p","e","n"," ","t","o"," ","s","t","u","d","e","n","t","s","\n">>, <<"S","u","m","m","a","r","y",":"," ","f","i","e","l","d"," ","s","t","u","d","y","\n">>,
      <<"A","w","a","r","d","s"," ","o","f"," ","$","1",",","0","0","0"," ","t","o"," ","$","5",",","0","0","0","\n">>, <<"u","p"," ","t","o"," ","$","2"," ","m","i","l","l","i","o","n","\n">> }

MaxLines == 2
Range(f) == {f[i] : i \in DOMAIN f}
\* The sequences of at most n distinct lines, in any order.
RECURSIVE SeqsUpTo(_, _)
SeqsUpTo(lines, n) ==
    IF n = 0 THEN {<<>>}
    ELSE LET prev == SeqsUpTo(lines, n - 1)
         IN  prev \cup {Append(b, l) : b \in {c \in prev : Len(c) = n - 1}, l \in lines}

RECURSIVE Flatten(_)
Flatten(ls) == IF Len(ls) = 0 THEN <<>> ELSE Head(ls) \o Flatten(Tail(ls))

Distinct(ls) == Cardinality(Range(ls)) = Len(ls)
BodiesOf(lines) == {Flatten(b) : b \in {c \in SeqsUpTo(lines, MaxLines) : Distinct(c)}}

Heads ==
    { <<>>, <<Elem("h1", <<>>)>>, <<Elem("title", <<" ","G","r","a","n","t","s"," ","P","o","r","t","a","l"," ">>)>>,
      <<Elem("title", <<"P","o","r","t","a","l">>), Elem("h1", <<"W","a","t","e","r"," ","S","t","u","d","y">>)>> }

HeadBodies == {<<>>, <<"A","g","e","n","c","y",":"," ","N","I","H","\n","D","u","e"," ","D","a","t","e",":"," ","0","3","/","1","5","/","2","0","2","5","\n">>}
Doc(title, body) == <<Elem("h1", title), Elem("p", body)>>

\* The runs' inputs: a URL and the page it serves.
Inputs ==
    {<<u, Doc(ScenarioTitle, b)>> : u \in {UrlNsf, UrlGrantsView}, b \in BodiesOf(DateLines)}
    \cup {<<u, Doc(ScenarioTitle, b)>> : u \in Urls, b \in BodiesOf(AgencyLines)}
    \cup {<<u, Doc(ScenarioTitle, b)>> : u \in {UrlNsf, UrlOther}, b \in BodiesOf(OtherLines)}
    \cup {<<u, h \o <<Elem("p", b)>> >> : u \in Urls, h \in Heads, b \in HeadBodies}
    \cup {<<u, ScenarioPage>> : u \in Urls}

\* Two runs of the program on one input: the titles hashed.
RunsInputs ==
    {<<u, h \o <<Elem("p", b)>> >> : u \in {UrlGrantsDetail, UrlGrantsView, UrlNsf},
                                     h \in Heads \cup {<<Elem("h1", ScenarioTitle)>>},
                                     b \in HeadBodies}

\* The interpreter's hash seeds and the clock's year of a run.
Seeds == {0, 1}
ClockYears == {2026}

(***************************************************************************)
(* main(): one run of the program                                          *)
(***************************************************************************)
VARIABLES
    url,          \* args.url
    page,         \* the page the URL serves, parsed
    seed,         \* the process's hash seed
    clock,        \* the year of the run
    pc,           \* the position in main()
    foa_data,     \* the record
    json_file,    \* out/foa.json as this run left it: absent, partial, written
    csv_file,     \* out/foa.csv, the same
    exit_status,  \* -1 while running
    stderr,       \* whether the error message was printed
    runs,         \* processes started so far
    id_log,       \* the identifiers generated so far, with their titles
    rec,          \* tagger harness: a record r
    rec_k,        \* tagger harness: r with a keyword added
    added,        \* tagger harness: the keyword added, where and how
    tag_count     \* tagger harness: how often tag(rec) ran

vars == <<url, page, seed, clock, pc, foa_data, json_file, csv_file, exit_status,
          stderr, runs, id_log, rec, rec_k, added, tag_count>>
harness == <<rec, rec_k, added, tag_count>>
inputs == <<url, page, seed, clock, runs>>
args == <<url, page, clock>>

NoData == [none |-> TRUE]
NoAdded == [keyword |-> <<>>, field |-> "", mode |-> "", tagged |-> FALSE]

InitRun(ins, seeds) ==
    /\ \E in \in ins : url = in[1] /\ page = in[2]
    /\ seed \in seeds
    /\ clock \in ClockYears
    /\ pc = "makedirs"
    /\ foa_data = NoData
    /\ json_file = "absent"
    /\ csv_file = "absent"
    /\ exit_status = -1
    /\ stderr = FALSE
    /\ runs = 1
    /\ id_log = {}
    /\ rec = NoData /\ rec_k = NoData /\ added = NoAdded /\ tag_count = 0

Init == InitRun(Inputs, {0})

\* except Exception as e: print(..., file=sys.stderr); sys.exit(1)
Abort ==
    /\ pc' = "failed"
    /\ exit_status' = 1
    /\ stderr' = TRUE

\* os.makedirs(args.out_dir, exist_ok=True)
MakeDirs ==
    /\ pc = "makedirs"
    /\ \/ pc' = "fetch" /\ UNCHANGED <<exit_status, stderr>>
       \/ Abort
    /\ UNCHANGED <<inputs, foa_data, json_file, csv_file, id_log, harness>>

\* ingester.ingest(): html = self.fetch_content(), which raises ValueError
\* on a network error, a timeout or an HTTP error status
FetchContent ==
    /\ pc = "fetch"
    /\ \/ pc' = "extract" /\ UNCHANGED <<exit_status, stderr>>
       \/ Abort
    /\ UNCHANGED <<inputs, foa_data, json_file, csv_file, id_log, harness>>

\* ingester.ingest(): self.foa_data = self.extract_nsf(html) or
\* self.extract_grants_gov(html)
ExtractStep ==
    /\ pc = "extract"
    /\ foa_data' = Extract(page, url, seed, clock)
    /\ id_log' = id_log \cup {[title |-> foa_data'.title, foa_id |-> foa_data'.foa_id,
                               from_url |-> Search(url_id_re, url).ok]}
    /\ pc' = "tag"
    /\ UNCHANGED <<inputs, json_file, csv_file, exit_status, stderr, harness>>

\* foa_data = tagger.tag(foa_data)
TagStep ==
    /\ pc = "tag"
    /\ foa_data' = Tag(foa_data)
    /\ pc' = "save_json"
    /\ UNCHANGED <<inputs, json_file, csv_file, exit_status, stderr, id_log, harness>>

\* save_json(foa_data, json_path): open(output_path, 'w') creates the file,
\* json.dump writes it; either may raise OSError.
SaveJson ==
    /\ pc = "save_json"
    /\ \/ json_file' = "written" /\ pc' = "save_csv" /\ UNCHANGED <<exit_status, stderr>>
       \/ json_file' = "absent" /\ Abort
       \/ json_file' = "partial" /\ Abort
    /\ UNCHANGED <<inputs, foa_data, csv_file, id_log, harness>>

\* save_csv(foa_data, csv_path)
SaveCsv ==
    /\ pc = "save_csv"
    /\ \/ csv_file' = "written" /\ pc' = "report" /\ UNCHANGED <<exit_status, stderr>>
       \/ csv_file' = "absent" /\ Abort
       \/ csv_file' = "partial" /\ Abort
    /\ UNCHANGED <<inputs, foa_data, json_file, id_log, harness>>

\* print(f"Successfully processed FOA: ...") and the normal exit
Report ==
    /\ pc = "report"
    /\ pc' = "done"
    /\ exit_status' = 0
    /\ UNCHANGED <<inputs, foa_data, json_file, csv_file, stderr, id_log, harness>>

Next == MakeDirs \/ FetchContent \/ ExtractStep \/ TagStep \/ SaveJson \/ SaveCsv \/ Report

Spec == Init /\ [][Next]_vars

\* The program is started again on the same input: a new process, with
\* a hash seed of its own.
MaxRuns == 2
NewProcess ==
    /\ pc \in {"done", "failed"}
    /\ runs < MaxRuns
    /\ runs' = runs + 1
    /\ seed' \in Seeds
    /\ pc' = "makedirs"
    /\ foa_data' = NoData
    /\ json_file' = "absent"
    /\ csv_file' = "absent"
    /\ exit_status' = -1
    /\ stderr' = FALSE
    /\ UNCHANGED <<args, id_log, harness>>

InitRuns == InitRun(RunsInputs, Seeds)
NextRuns == Next \/ NewProcess
SpecRuns == InitRuns /\ [][NextRuns]_vars

(***************************************************************************)
(* The tagger on records of any origin                                     *)
(***************************************************************************)
StaleTags ==
    [research_domains |-> <<"health">>, methods |-> <<>>, populations |-> <<>>,
     sponsor_themes |-> <<"general", "basic_research">>]

TextRecords ==
    {[title |-> t, program_description |-> d, eligibility_text |-> e, agency |-> <<"N","S","F">>] :
        t \in {<<>>, <<"F","i","e","l","d">>, <<"H","e","a","l","t","h"," ","T","r","i","a","l">>},
        d \in {NA, <<"s","t","u","d","y"," ","o","f"," ","s","o","i","l">>, <<"D","a","t","a">>},
        e \in {NA, <<"a","n","a","l","y","s","i","s"," ","b","y"," ","f","a","c","u","l","t","y">>, <<"S","t","u","d","e","n","t","s">>}}
AgencyRecords ==
    {[title |-> <<"W","a","t","e","r"," ","S","u","r","v","e","y">>, agency |-> a] :
        a \in {<<"N","S","F">>, <<"N","a","t","i","o","n","a","l"," ","I","n","s","t","i","t","u","t","e","s"," ","o","f"," ","H","e","a","l","t","h"," ","(","N","I","H",")">>, <<"U","n","k","n","o","w","n"," ","A","g","e","n","c","y">>,
               <<"N","I","H"," ","a","n","d"," ","N","S","F">>, <<"G","r","a","n","t","s",".","g","o","v">>, <<>>}}
    \cup {[title |-> <<"W","a","t","e","r"," ","S","u","r","v","e","y">>, eligibility_text |-> <<"n","s","f"," ","a","n","d"," ","n","i","h"," ","s","t","a","f","f">>]}
WithStaleTags(r) ==
    [k \in DOMAIN r \cup {"semantic_tags"} |-> IF k = "semantic_tags" THEN StaleTags ELSE r[k]]
TagRecords ==
    TextRecords \cup AgencyRecords \cup {WithStaleTags(r) : r \in AgencyRecords}

\* Keywords of the three ontologies to add to a record.
AddedKeywords == { <<"t","r","i","a","l">>, <<"c","l","i","m","a","t","e">>, <<"s","t","u","d","e","n","t">>, <<"f","i","e","l","d"," ","s","t","u","d","y">>, <<"c","o","m","m","u","n","i","t","y">> }
TextFields == {"title", "program_description", "eligibility_text"}

\* r with keyword k added to a field as a word of its own, at the field's
\* start or at its end.
AddKeywordTo(r, k, field, mode) ==
    LET old == Get(r, field)
        new == IF mode = "append" THEN old \o <<" ">> \o k ELSE k \o <<" ">> \o old
    IN  [f \in DOMAIN r \cup {field} |-> IF f = field THEN new ELSE r[f]]

MaxTags == 2

InitTag ==
    /\ rec \in TagRecords
    /\ rec_k = NoData
    /\ added = NoAdded
    /\ tag_count = 0
    /\ url = <<>> /\ page = <<>> /\ seed = 0 /\ clock \in ClockYears
    /\ pc = "harness" /\ foa_data = NoData /\ json_file = "absent" /\ csv_file = "absent"
    /\ exit_status = -1 /\ stderr = FALSE /\ runs = 0 /\ id_log = {}

main_state == <<url, page, seed, clock, pc, foa_data, json_file, csv_file, exit_status,
                stderr, runs, id_log>>

\* A copy of the untagged record gets a keyword.
AddKeyword ==
    /\ tag_count = 0
    /\ rec_k = NoData
    /\ \E k \in AddedKeywords, field \in TextFields, mode \in {"prepend", "append"} :
          /\ rec_k' = AddKeywordTo(rec, k, field, mode)
          /\ added' = [keyword |-> k, field |-> field, mode |-> mode, tagged |-> FALSE]
    /\ UNCHANGED <<rec, tag_count, main_state>>

\* tagger.tag(rec), again and again
TagRec ==
    /\ tag_count < MaxTags
    /\ rec' = Tag(rec)
    /\ tag_count' = tag_count + 1
    /\ UNCHANGED <<rec_k, added, main_state>>

\* tagger.tag(rec_k)
TagRecK ==
    /\ rec_k # NoData
    /\ ~added.tagged
    /\ rec_k' = Tag(rec_k)
    /\ added' = [added EXCEPT !.tagged = TRUE]
    /\ UNCHANGED <<rec, tag_count, main_state>>

NextTag == AddKeyword \/ TagRec \/ TagRecK
SpecTag == InitTag /\ [][NextTag]_vars

(***************************************************************************)
(* Properties                                                              *)
(***************************************************************************)
\* The record as extraction returned it, before tagging.
Extracted == pc = "tag"
\* The record as the tagger returned it.
Tagged == pc = "save_json"

\* The path of a URL: what follows the host, up to a query or a fragment.
UrlPath(u) ==
    LET c == IndexOf(u, {":"}, 1)
        p == IndexOf(u, {"/", "?", "#"}, c + 3)
        q == IndexOf(u, {"?", "#"}, c + 3)
    IN  IF p = 0 \/ u[p] # "/" THEN <<>>
        ELSE SubSeq(u, p, IF q = 0 THEN Len(u) ELSE q - 1)
\* The segments of a path that are made only of digits.
NumericSegments(u) ==
    LET path == UrlPath(u)
        ends == {ij \in (1..Len(path)) \X (1..Len(path)) :
                    /\ path[ij[1]] = "/"
                    /\ ij[2] > ij[1]
                    /\ ij[2] = Len(path) \/ path[ij[2] + 1] = "/"
                    /\ \A m \in (ij[1] + 1)..ij[2] : IsDigit(path[m])}
    IN  {SubSeq(path, ij[1] + 1, ij[2]) : ij \in ends}

\* C1: whenever the origin URL has a path segment made only of digits, the
\* identifier is "FOA-" followed by that segment; for the URL
\* https://www.grants.gov/search-results-detail/123456 it is "FOA-123456".
C1_IdentifierFromUrl ==
    Extracted =>
        /\ NumericSegments(url) # {} =>
              \E seg \in NumericSegments(url) : foa_data.foa_id = FoaPrefix \o seg
        /\ url = UrlGrantsDetail => foa_data.foa_id = <<"F","O","A","-","1","2","3","4","5","6">>

\* C3: without a numeric path segment the identifier is "FOA-<n>" with n in
\* 0..99999, and n is a function of the title alone: two runs of the program
\* on the same title give the same identifier.
IsFallbackId(id) ==
    /\ Len(id) > Len(FoaPrefix)
    /\ SubSeq(id, 1, Len(FoaPrefix)) = FoaPrefix
    /\ LET n == SubSeq(id, Len(FoaPrefix) + 1, Len(id))
       IN  /\ \A i \in 1..Len(n) : IsDigit(n[i])
           /\ Len(n) <= 5
           /\ IntToStr(StrToInt(n)) = n
C3_FallbackDeterministic ==
    /\ \A a \in id_log : ~a.from_url => IsFallbackId(a.foa_id)
    /\ \A a, b \in id_log :
          (~a.from_url /\ ~b.from_url /\ a.title = b.title) => a.foa_id = b.foa_id

\* C4: the tagged record holds every declared field, and a scalar field that
\* could not be resolved is exactly "N/A", never empty: so is the title when
\* the page has no heading or title element, or one without text.
DeclaredFields ==
    {"foa_id", "title", "agency", "open_date", "close_date", "eligibility_text",
     "program_description", "award_range", "source_url", "semantic_tags"}
SentinelFields ==
    {"title", "open_date", "close_date", "eligibility_text", "program_description",
     "award_range"}
TitleUnresolved ==
    \/ Find(page, "h1") = 0 /\ Find(page, "title") = 0
    \/ Find(page, "h1") # 0 /\ Strip(page[Find(page, "h1")].text) = <<>>
    \/ Find(page, "h1") = 0 /\ Find(page, "title") # 0
          /\ Strip(page[Find(page, "title")].text) = <<>>
C4_FieldsAndSentinel ==
    Tagged =>
        /\ DeclaredFields \subseteq DOMAIN foa_data
        /\ \A f \in SentinelFields : foa_data[f] # <<>>
        /\ TitleUnresolved => foa_data.title = NA

\* C5: a run that ends in failure has written no output file, and foa.json
\* and foa.csv are written both or neither.
C5_AtomicRun ==
    /\ pc = "failed" => json_file = "absent" /\ csv_file = "absent"
    /\ pc \in {"done", "failed"} => (json_file = "written" <=> csv_file = "written")

\* C2 as stated: on the scenario page served by host nsf.gov the tagged
\* record has the NSF agency, close_date resolved to 2025-04-01, the
\* research domains environment and science, the method computational, the
\* population students and the one sponsor theme basic_research.
ScenarioRun == Tagged /\ url = UrlNsf /\ page = ScenarioPage
Labels(category) == Range(foa_data.semantic_tags[category])
ScenarioTags ==
    /\ foa_data.agency = <<"N","a","t","i","o","n","a","l"," ","S","c","i","e","n","c","e"," ","F","o","u","n","d","a","t","i","o","n"," ","(","N","S","F",")">>
    /\ {"environment", "science"} \subseteq Labels("research_domains")
    /\ "computational" \in Labels("methods")
    /\ "students" \in Labels("populations")
    /\ foa_data.semantic_tags.sponsor_themes = <<"basic_research">>
C2_ScenarioAsStated ==
    ScenarioRun =>
        /\ ScenarioTags
        /\ foa_data.close_date # NA
        /\ SubSeq(foa_data.close_date, 1, 10) = <<"2","0","2","5","-","0","4","-","0","1">>

\* C2, amended: the same, except that close_date is "N/A": no pattern of
\* the NSF profile matches "Due Date: 04/01/2025".
C2_ScenarioAmended ==
    ScenarioRun => ScenarioTags /\ foa_data.close_date = NA /\ foa_data.open_date = NA
C2_Witness == ScenarioRun /\ foa_data.title = ScenarioTitle

\* C9: per role the date is the ISO form of the first pattern, in the
\* listed order, that matches and whose match parses; a match that does not
\* parse is passed over; a role without one is "N/A".  In the generic
\* profile "Due Date: 03/15/2025" gives close_date 2025-03-15T00:00:00
\* unless a "Close Date" pattern gave one before.
Parses(pattern, text) ==
    LET m == Search(pattern.re, text)
    IN  m.ok /\ ParseDate(Group1(m, text), clock).ok
FirstParsed(patterns, order, text) ==
    LET good == {i \in order : Parses(patterns[i], text)}
    IN  IF good = {} THEN NA
        ELSE LET p == patterns[SetMin(good)]
             IN  IsoFormat(ParseDate(Group1(Search(p.re, text), text), clock))
C9_DateCascade ==
    Extracted =>
        LET text == GetText(page)
        IN  IF IsNsf(url)
            THEN /\ foa_data.open_date = NA
                 /\ foa_data.close_date = FirstParsed(nsf_date_patterns, 1..4, text)
            ELSE /\ foa_data.open_date = FirstParsed(grants_date_patterns, {1, 2}, text)
                 /\ foa_data.close_date = FirstParsed(grants_date_patterns, {3, 4}, text)
                 /\ (Contains(text, <<"D","u","e"," ","D","a","t","e",":"," ","0","3","/","1","5","/","2","0","2","5">>)
                       /\ ~Parses(grants_date_patterns[3], text))
                      => foa_data.close_date = <<"2","0","2","5","-","0","3","-","1","5","T","0","0",":","0","0",":","0","0">>
                 /\ (Contains(text, <<"D","u","e"," ","D","a","t","e",":"," ","0","3","/","1","5","/","2","0","2","5">>)
                       /\ Parses(grants_date_patterns[3], text))
                      => foa_data.close_date = FirstParsed(grants_date_patterns, {3}, text)
\* A Close Date that does not parse, then a Due Date that does.
C9_Witness ==
    /\ Extracted /\ ~IsNsf(url)
    /\ Contains(GetText(page), <<"C","l","o","s","e"," ","D","a","t","e",":"," ","1","3","/","4","5","/","2","0","2","5","\n","D","u","e"," ","D","a","t","e",":"," ","0","3","/","1","5","/","2","0","2","5">>)
    /\ foa_data.close_date = <<"2","0","2","5","-","0","3","-","1","5","T","0","0",":","0","0",":","0","0">>
    /\ foa_data.open_date = NA

\* C10 as stated: on a host containing nsf.gov the agency is the fixed NSF
\* label; on any other host it is the text captured by the first label
\* pattern that matches, and the host lookup is used if and only if no
\* pattern matches; the agency is never "N/A".
HostAgency(host) ==
    IF Contains(host, <<"g","r","a","n","t","s",".","g","o","v">>) THEN <<"G","r","a","n","t","s",".","g","o","v">>
    ELSE IF Contains(host, <<"n","i","h",".","g","o","v">>) THEN <<"N","a","t","i","o","n","a","l"," ","I","n","s","t","i","t","u","t","e","s"," ","o","f"," ","H","e","a","l","t","h"," ","(","N","I","H",")">>
    ELSE <<"U","n","k","n","o","w","n"," ","A","g","e","n","c","y">>
LabelOrder == << AgencyRe(<<"A","g","e","n","c","y",":">>), AgencyRe(<<"F","u","n","d","i","n","g"," ","A","g","e","n","c","y",":">>), AgencyRe(<<"D","e","p","a","r","t","m","e","n","t",":">>) >>
MatchingLabels(text) == {i \in 1..Len(LabelOrder) : Search(LabelOrder[i], text).ok}
Captured(text) ==
    LET p == LabelOrder[SetMin(MatchingLabels(text))]
    IN  Strip(Group1(Search(p, text), text))
C10_AgencyAsStated ==
    Extracted =>
        LET text == GetText(page)
        IN  /\ foa_data.agency # NA
            /\ IF IsNsf(url) THEN foa_data.agency = <<"N","a","t","i","o","n","a","l"," ","S","c","i","e","n","c","e"," ","F","o","u","n","d","a","t","i","o","n"," ","(","N","S","F",")">>
               ELSE IF MatchingLabels(text) # {} THEN foa_data.agency = Captured(text)
               ELSE foa_data.agency = HostAgency(Domain(url))

\* C10, amended: the host lookup is used when no pattern matches and also
\* when the text captured by the first matching pattern is "N/A".
C10_AgencyAmended ==
    Extracted =>
        LET text == GetText(page)
        IN  /\ foa_data.agency # NA
            /\ IF IsNsf(url) THEN foa_data.agency = <<"N","a","t","i","o","n","a","l"," ","S","c","i","e","n","c","e"," ","F","o","u","n","d","a","t","i","o","n"," ","(","N","S","F",")">>
               ELSE IF MatchingLabels(text) # {} /\ Captured(text) # NA
               THEN foa_data.agency = Captured(text)
               ELSE foa_data.agency = HostAgency(Domain(url))
\* A page whose first matching label captures "N/A".
C10_Witness ==
    /\ Extracted /\ ~IsNsf(url)
    /\ MatchingLabels(GetText(page)) # {}
    /\ Captured(GetText(page)) = NA
    /\ foa_data.agency = <<"G","r","a","n","t","s",".","g","o","v">>

\* C6: after tag, sponsor_themes holds exactly one label, decided by the
\* lowercased agency alone: basic_research if it contains "nsf", otherwise
\* health_research if it contains "nih", otherwise general (also when the
\* record has no agency).
AgencyHas(r, word) == "agency" \in DOMAIN r /\ Contains(Lower(r.agency), word)
ExpectedTheme(r) ==
    IF AgencyHas(r, <<"n","s","f">>) THEN "basic_research"
    ELSE IF AgencyHas(r, <<"n","i","h">>) THEN "health_research"
    ELSE "general"
C6_SponsorTheme ==
    /\ tag_count >= 1 =>
          /\ Len(rec.semantic_tags.sponsor_themes) = 1
          /\ rec.semantic_tags.sponsor_themes[1] = ExpectedTheme(rec)
    /\ added.tagged =>
          /\ Len(rec_k.semantic_tags.sponsor_themes) = 1
          /\ rec_k.semantic_tags.sponsor_themes[1] = ExpectedTheme(rec_k)
\* A record without agency, and one naming both sponsors.
C6_Witness ==
    /\ tag_count >= 1
    /\ "agency" \notin DOMAIN rec
    /\ "semantic_tags" \in DOMAIN rec
    /\ rec.semantic_tags.sponsor_themes = <<"general">>

\* C7: a step of tag leaves every field other than semantic_tags as it
\* was, and on a record that tag has tagged before it leaves semantic_tags
\* as it was too.
TagRecStep == tag_count' = tag_count + 1
C7_TagIdempotent ==
    [][TagRecStep =>
          /\ DOMAIN rec' = DOMAIN rec \cup {"semantic_tags"}
          /\ \A f \in DOMAIN rec \ {"semantic_tags"} : rec'[f] = rec[f]
          /\ tag_count >= 1 => rec'.semantic_tags = rec.semantic_tags
          /\ Len(rec'.semantic_tags.sponsor_themes) = 1]_vars
\* tag has run twice on a record that carried tags of another origin.
C7_Witness ==
    /\ tag_count >= 2
    /\ rec.semantic_tags # StaleTags
    /\ rec.semantic_tags.research_domains # <<>>

\* C8 as stated: adding an occurrence of a keyword to title,
\* program_description or eligibility_text removes no label of the three
\* keyword categories, and the keyword's own labels are attached.
Categories ==
    [research_domains |-> RESEARCH_DOMAINS, methods |-> METHODS, populations |-> POPULATIONS]
TagsOf(r, category) == Range(r.semantic_tags[category])
KeywordLabels(table, k) ==
    {table[i].label : i \in {j \in 1..Len(table) : k \in Range(table[j].keywords)}}
BothTagged == tag_count >= 1 /\ added.tagged
OuterEnd ==
    \/ added.field = "title" /\ added.mode = "prepend"
    \/ added.field = "eligibility_text" /\ added.mode = "append"
InOneField(r, keywords) ==
    \E j \in 1..Len(keywords), f \in TextFields : Contains(Lower(Get(r, f)), keywords[j])
=============================================================================
